---- MODULE Spec2Model ----
(***************************************************************************)
(* A model of the gluestick spreadsheet service: the mapping/validation    *)
(* core of api/lib/manager.py (do_mapping, validate_mapping, preview_df),  *)
(* its export adapter (do_import) and the HTTP handlers of api/app.py.     *)
(*                                                                         *)
(* A CSV file is a record [cols, rows]: the header line split on ",", and  *)
(* the remaining lines, each a sequence of cell texts.  pandas is modelled *)
(* by what the code relies on: blank-line skipping, null cells, duplicate  *)
(* header mangling, dtype inference (int64 / float64 / object), the .str   *)
(* accessor's refusal of non-object columns, KeyError on a missing column  *)
(* and the text to_csv writes for each dtype.                              *)
(***************************************************************************)
EXTENDS Integers, Sequences, FiniteSets, TLC

VARIABLES
    pc,        \* core: "ready" before the call, then the name of the call made
    src,       \* core: the uploaded source file [cols, rows]
    mapping,   \* core: the mapping argument, an ordered dict as <<key, value>> pairs
    schema,    \* core: the schema argument [given, fields]; not given is None
    out,       \* core: outcome of do_mapping [err, file, kept, preview]
    report,    \* core: outcome of validate_mapping [err, entries]
    restored,  \* header round trip: the header after rename and reverse rename
    dirs,      \* service: the directories on disk (resolved paths)
    files,     \* service: the files on disk: resolved path -> content
    access,    \* service: the file accesses made: [user, op, mode, path]
    env,       \* service: the GLUESTICK_* environment [target, format]
    resp,      \* service: the last response [route, user, hasMapping, status, code, message]
    hooks,     \* service: lifecycle webhooks triggered so far
    calls,     \* service: manager operations entered so far
    procs,     \* service: exporter subprocesses launched, with what they found staged
    nreq       \* service: number of requests handled

coreVars == <<pc, src, mapping, schema, out, report, restored>>
svcVars  == <<dirs, files, access, env, resp, hooks, calls, procs, nreq>>
vars     == <<pc, src, mapping, schema, out, report, restored,
              dirs, files, access, env, resp, hooks, calls, procs, nreq>>

-----------------------------------------------------------------------------
(* Values *)

\* Python's None
NoValue == "<None>"
\* a null cell of a DataFrame (NaN / <NA>)
NaN == "<NaN>"
\* the text csv.writer gives a row made of one empty field: ""
QuotedEmpty == "\"\""
\* the regex of the spec's example
RegexDigits == "^[0-9]+$"

\* integer literals and the float literals to_csv makes of them
Digits == {"30"}
IsFloatLit(v) == \E d \in Digits : v = d \o ".0"
\* cell texts pandas reads as null
IsNullText(v) == v = "" \/ v = QuotedEmpty

Min(a, b) == IF a < b THEN a ELSE b

\* re.match(regexp, text): the match is anchored at the start only; RegexDigits
\* anchors its own end
Match(regexp, text) ==
    IF regexp = RegexDigits THEN text \in Digits ELSE FALSE

\* positions of name in a sequence of names
Positions(names, name) == {i \in 1..Len(names) : names[i] = name}

\* first k elements of s
Take(s, k) == SubSeq(s, 1, Min(k, Len(s)))

-----------------------------------------------------------------------------
(* dict helpers: a dict is a sequence of <<key, value>> pairs, in insertion order *)

Keys(m) == {m[i][1] : i \in 1..Len(m)}
Values(m) == [i \in 1..Len(m) |-> m[i][2]]
HasKey(m, x) == x \in Keys(m)
\* m[x]: on a repeated key the last assignment wins
Get(m, x) ==
    LET last == CHOOSE i \in 1..Len(m) :
                    m[i][1] = x /\ \A j \in (i+1)..Len(m) : m[j][1] # x
    IN m[last][2]
\* len(m): number of distinct keys
DictLen(m) == Cardinality(Keys(m))

-----------------------------------------------------------------------------
(* pandas.read_csv *)

\* skip_blank_lines: a line with no character is not a row
IsBlankLine(r) == Len(r) = 0 \/ (Len(r) = 1 /\ r[1] = "")

\* duplicate header names are read as x, x.1, x.2, ...
Mangle(cols) ==
    [i \in 1..Len(cols) |->
        LET before == Cardinality({j \in 1..(i-1) : cols[j] = cols[i]})
        IN IF before = 0 THEN cols[i] ELSE cols[i] \o "." \o ToString(before)]

\* dtype pandas infers for a column from its cell texts
InferDtype(cells) ==
    IF Len(cells) = 0 THEN "object"
    ELSE IF \A i \in 1..Len(cells) : cells[i] \in Digits THEN "int64"
    ELSE IF \A i \in 1..Len(cells) :
                cells[i] \in Digits \/ IsFloatLit(cells[i]) \/ IsNullText(cells[i])
         THEN "float64"
    ELSE "object"

ParseCell(v) == IF IsNullText(v) THEN NaN ELSE v

\* read_csv(path, nrows=nrows): [err, df]; df = [columns, dtypes, index, data]
ReadCsv(file, nrows) ==
    \* a file whose lines are all blank has no header to parse
    IF Len(file.cols) = 0 \/ file.cols = <<"">>
    THEN [err |-> "EmptyDataError"]
    ELSE LET lines == Take(SelectSeq(file.rows, LAMBDA r : ~IsBlankLine(r)), nrows)
             n == Len(file.cols)
         IN [err |-> "",
             df |-> [columns |-> Mangle(file.cols),
                     dtypes  |-> [j \in 1..n |->
                                    InferDtype([i \in 1..Len(lines) |-> lines[i][j]])],
                     index   |-> [i \in 1..Len(lines) |-> i],
                     data    |-> [i \in 1..Len(lines) |->
                                    [j \in 1..n |-> ParseCell(lines[i][j])]]]]

\* read_csv(path): every row
ReadAll(file) == ReadCsv(file, Len(file.rows))

-----------------------------------------------------------------------------
(* DataFrame operations *)

\* df[names] for a list of names: KeyError when one is no column
SelectColumns(df, names) ==
    IF \E i \in 1..Len(names) : Positions(df.columns, names[i]) = {}
    THEN [err |-> "KeyError"]
    ELSE LET pos == [i \in 1..Len(names) |->
                        CHOOSE p \in Positions(df.columns, names[i]) : TRUE]
         IN [err |-> "",
             df |-> [columns |-> names,
                     dtypes  |-> [i \in 1..Len(names) |-> df.dtypes[pos[i]]],
                     index   |-> df.index,
                     data    |-> [r \in 1..Len(df.data) |->
                                    [i \in 1..Len(names) |-> df.data[r][pos[i]]]]]]

\* df.loc[valid] for a boolean mask given as the set of kept positions
Loc(df, keep) ==
    LET ks == SelectSeq([r \in 1..Len(df.data) |-> r], LAMBDA r : r \in keep)
    IN [df EXCEPT !.index = [i \in 1..Len(ks) |-> df.index[ks[i]]],
                  !.data  = [i \in 1..Len(ks) |-> df.data[ks[i]]]]

\* the text to_csv writes for a value of a column of the given dtype
FormatCell(dtype, v, ncols) ==
    IF v = NaN THEN (IF ncols = 1 THEN QuotedEmpty ELSE "")
    ELSE IF dtype = "float64" /\ v \in Digits THEN v \o ".0"
    ELSE v

\* df.to_csv(path, index=False)
ToCsv(df) ==
    [cols |-> df.columns,
     rows |-> [r \in 1..Len(df.data) |->
                 [j \in 1..Len(df.columns) |->
                     FormatCell(df.dtypes[j], df.data[r][j], Len(df.columns))]]]

-----------------------------------------------------------------------------
(* manager.preview_df *)

\* rows read for a preview
PreviewRows == 5

\* iterrows() gives each row as one Series: when every column is numeric and one
\* of them is float64, the integers of the row become floats
RowUpcast(df) ==
    /\ \A j \in 1..Len(df.dtypes) : df.dtypes[j] \in {"int64", "float64"}
    /\ \E j \in 1..Len(df.dtypes) : df.dtypes[j] = "float64"

PreviewValue(df, j, v) ==
    IF v = NaN THEN NaN
    ELSE IF v \in Digits /\ (df.dtypes[j] = "float64" \/ RowUpcast(df)) THEN v \o ".0"
    ELSE v

\* the header and the first nrows rows of the file at path
PreviewOf(file, nrows) ==
    LET r == ReadCsv(file, nrows)
    IN IF r.err # "" THEN [err |-> r.err, rows |-> <<>>]
       ELSE [err |-> "",
             rows |-> <<r.df.columns>> \o
                      [i \in 1..Len(r.df.data) |->
                          [j \in 1..Len(r.df.columns) |->
                              PreviewValue(r.df, j, r.df.data[i][j])]]]

preview_df_one_more(file) == PreviewOf(file, PreviewRows + 1)

preview_df(file) == PreviewOf(file, PreviewRows)

-----------------------------------------------------------------------------
(* manager.do_mapping *)

RewriteHeaderByPosition(cols, m) ==
    [i \in 1..Len(cols) |-> IF i <= Len(m) THEN m[i][2] ELSE cols[i]]

\* new_cols = list(map(lambda x: mapping[x] if x in mapping else x, cols))
RewriteHeader(cols, m) ==
    [i \in 1..Len(cols) |-> IF HasKey(m, cols[i]) THEN Get(m, cols[i]) ELSE cols[i]]

\* the file written by the with-block: the new header, then the other lines as they are
RenamedFile(file, m) == [cols |-> RewriteHeader(file.cols, m), rows |-> file.rows]

\* if len(mapping) < len(cols): df = df[list(mapping.values())]
DropUnmapped(df, cols, m) ==
    IF DictLen(m) < Len(cols) THEN SelectColumns(df, Values(m))
    ELSE [err |-> "", df |-> df]

IsValidIgnoringNull(v, regexp) == v = NaN \/ Match(regexp, v)

\* one element of df[col].notna() & df[col].str.match(regexp)
IsValid(v, regexp) == v # NaN /\ Match(regexp, v)

\* the validation loop from field i on: [err, df]
RECURSIVE ValidateFrom(_, _, _)
ValidateFrom(df, fields, i) ==
    IF i > Len(fields) THEN [err |-> "", df |-> df]
    ELSE IF fields[i].validator = NoValue THEN ValidateFrom(df, fields, i + 1)
    ELSE LET pos == Positions(df.columns, fields[i].col)
         IN IF pos = {} THEN [err |-> "KeyError"]
            \* two columns of that name: df[col] is a DataFrame, which has no .str
            ELSE IF Cardinality(pos) > 1 THEN [err |-> "AttributeError"]
            ELSE LET p == CHOOSE q \in pos : TRUE
                 IN \* .str is refused on a column that is not of object dtype
                    IF df.dtypes[p] # "object" THEN [err |-> "AttributeError"]
                    ELSE ValidateFrom(
                            Loc(df, {r \in 1..Len(df.data) :
                                        IsValid(df.data[r][p], fields[i].validator)}),
                            fields, i + 1)

\* do_mapping on the content of from_path: [err, file, kept, preview]; file is what
\* to_path holds when the call ends, kept the source rows (by position among the
\* rows read) of the frame when it ended
do_mapping(file, m, sch) ==
    LET renamed == RenamedFile(file, m)
        read    == ReadAll(renamed)
        failed(e, df) == [err |-> e, file |-> renamed, kept |-> df.index, preview |-> <<>>]
    IN IF read.err # ""
       THEN [err |-> read.err, file |-> renamed, kept |-> <<>>, preview |-> <<>>]
       ELSE LET dropped == DropUnmapped(read.df, file.cols, m)
            IN IF dropped.err # "" THEN failed(dropped.err, read.df)
               \* schema['fields'] on a request without a schema
               ELSE IF ~sch.given THEN failed("TypeError", dropped.df)
               ELSE LET checked == ValidateFrom(dropped.df, sch.fields, 1)
                    IN IF checked.err # "" THEN failed(checked.err, dropped.df)
                       ELSE LET written == ToCsv(checked.df)
                                prev == preview_df(written)
                            IN [err |-> prev.err, file |-> written,
                                kept |-> checked.df.index, preview |-> prev.rows]

-----------------------------------------------------------------------------
(* manager.validate_mapping *)

\* the loop stops once the sample holds more than this many values
SampleBreak == 5

\* util.get_key(mapping, col): the first key whose value is col, None without one
get_key(m, col) ==
    IF \E i \in 1..Len(m) : m[i][2] = col
    THEN m[CHOOSE i \in 1..Len(m) :
                m[i][2] = col /\ \A j \in 1..(i-1) : m[j][2] # col][1]
    ELSE NoValue

\* Series.astype("string"): the text of each value, nulls kept null
AsString(dtype, v) ==
    IF v = NaN THEN NaN
    ELSE IF dtype = "float64" /\ v \in Digits THEN v \o ".0"
    ELSE v

\* "{:.2%}".format(valid / total), as hundredths of a percent
Percent(valid, total) == (2 * 10000 * valid + total) \div (2 * total)

\* for index, value in invalid_data.items(): if len(invalid_rows) > 5: break ...
RECURSIVE Sample(_, _, _)
Sample(values, i, acc) ==
    IF i > Len(values) \/ Len(acc) > SampleBreak THEN acc
    ELSE Sample(values, i + 1, Append(acc, IF values[i] = NaN THEN "" ELSE values[i]))

\* invalid[col] = ...: an assignment to a dict
Put(m, k, v) ==
    IF HasKey(m, k)
    THEN [i \in 1..Len(m) |-> IF m[i][1] = k THEN <<k, v>> ELSE m[i]]
    ELSE Append(m, <<k, v>>)

\* the report loop from field i on: [err, entries]
RECURSIVE ReportFrom(_, _, _, _, _)
ReportFrom(df, m, fields, i, invalid) ==
    IF i > Len(fields) THEN [err |-> "", entries |-> invalid]
    ELSE IF fields[i].validator = NoValue THEN ReportFrom(df, m, fields, i + 1, invalid)
    ELSE LET pos == Positions(df.columns, get_key(m, fields[i].col))
         IN IF pos = {} THEN [err |-> "KeyError", entries |-> invalid]
            ELSE LET p == CHOOSE q \in pos : TRUE
                     df_col == [r \in 1..Len(df.data) |->
                                   AsString(df.dtypes[p], df.data[r][p])]
                     valid == [r \in 1..Len(df_col) |->
                                   IsValid(df_col[r], fields[i].validator)]
                     nTrue == Cardinality({r \in 1..Len(valid) : valid[r]})
                     nFalse == Cardinality({r \in 1..Len(valid) : ~valid[r]})
                     invalid_data == SelectSeq([r \in 1..Len(df_col) |-> <<r, df_col[r]>>],
                                               LAMBDA x : ~valid[x[1]])
                 IN IF nFalse + nTrue = 0
                    THEN [err |-> "ZeroDivisionError", entries |-> invalid]
                    ELSE ReportFrom(df, m, fields, i + 1,
                            Put(invalid, fields[i].col,
                                [percent |-> Percent(nTrue, nFalse + nTrue),
                                 rows |-> Sample([k \in 1..Len(invalid_data) |->
                                                     invalid_data[k][2]], 1, <<>>)]))

\* validate_mapping on the content of from_path: [err, entries]
validate_mapping(file, m, sch) ==
    LET read == ReadAll(file)
    IN IF read.err # "" THEN [err |-> read.err, entries |-> <<>>]
       ELSE IF ~sch.given THEN [err |-> "TypeError", entries |-> <<>>]
       ELSE ReportFrom(read.df, m, sch.fields, 1, <<>>)

-----------------------------------------------------------------------------
(* The inputs of the core *)

MaxRows == 6        \* rows of the long source file, of the one column b
MaxWideRows == 3    \* rows of the other source files
MaxFields == 2      \* fields of a schema

LongHeader == <<"b">>
Headers == {LongHeader, <<"a">>, <<"a", "b">>, <<"a", "c", "d">>}
\* the cell texts a source column draws from
CellsOf(name) ==
    IF name = "a" THEN {"30", "abc", ""}
    ELSE IF name = "b" THEN {"30", "abc"}
    ELSE {"30"}
MapKeys == {"a", "b"}
Targets == {"a", "x"}
Fields == {[col |-> "a", validator |-> RegexDigits],
           [col |-> "x", validator |-> RegexDigits],
           [col |-> "x", validator |-> NoValue]}

SeqsUpTo(S, n) == UNION {[1..k -> S] : k \in 0..n}

RowBound(h) == IF h = LongHeader THEN MaxRows ELSE MaxWideRows

RowsOf(h) == {r \in [1..Len(h) -> UNION {CellsOf(h[j]) : j \in 1..Len(h)}] :
                \A j \in 1..Len(h) : r[j] \in CellsOf(h[j])}

Tables ==
    UNION {{[cols |-> h, rows |-> rs] : rs \in SeqsUpTo(RowsOf(h), RowBound(h))}
           : h \in Headers}

\* JSON objects: the keys of a dict are distinct
Mappings ==
    {m \in SeqsUpTo(MapKeys \X Targets, Cardinality(MapKeys)) :
        \A i, j \in 1..Len(m) : i # j => m[i][1] # m[j][1]}

\* a request without a schema gives the manager None
NoSchema == [given |-> FALSE, fields |-> <<>>]
Schemas == {[given |-> TRUE, fields |-> fs] : fs \in SeqsUpTo(Fields, MaxFields)}
           \cup {NoSchema}

NoOutcome == [err |-> NoValue]

-----------------------------------------------------------------------------
(* The core: one call of do_mapping on an uploaded file *)

NoResponse == [route |-> NoValue]

InitService ==
    /\ dirs = {} /\ files = <<>> /\ access = {}
    /\ env = [target |-> NoValue, format |-> NoValue, bucket |-> <<>>]
    /\ resp = NoResponse /\ hooks = <<>> /\ calls = <<>> /\ procs = {} /\ nreq = 0

Init ==
    /\ pc = "ready"
    /\ src \in Tables
    /\ mapping = <<>> /\ schema = NoSchema
    /\ out = NoOutcome /\ report = NoOutcome /\ restored = <<>>
    /\ InitService

CallDoMapping ==
    /\ pc = "ready"
    /\ \E m \in Mappings, sch \in Schemas :
        /\ mapping' = m /\ schema' = sch
        /\ out' = do_mapping(src, m, sch)
    /\ pc' = "do_mapping"
    /\ UNCHANGED <<src, report, restored>>
    /\ UNCHANGED svcVars

Next == CallDoMapping

Spec == Init /\ [][Next]_vars

(* The reporter: one call of validate_mapping on an uploaded file *)

CallValidateMapping ==
    /\ pc = "ready"
    /\ \E m \in Mappings, sch \in Schemas :
        /\ mapping' = m /\ schema' = sch
        /\ report' = validate_mapping(src, m, sch)
    /\ pc' = "validate_mapping"
    /\ UNCHANGED <<src, out, restored>>
    /\ UNCHANGED svcVars

NextValidate == CallValidateMapping

SpecValidate == Init /\ [][NextValidate]_vars

-----------------------------------------------------------------------------
(* The header step alone: rename with a mapping, then with the reversed mapping *)

MaxHeaderCols == 2   \* columns of a header, entries of a mapping

HeaderNames == {"a", "b", "c"}
HeaderTargets == {"a", "b", "x"}

HeaderOnly ==
    {[cols |-> h, rows |-> <<>>] :
        h \in {c \in SeqsUpTo(HeaderNames, MaxHeaderCols) : Len(c) >= 1}}

HeaderMappings ==
    {m \in SeqsUpTo(HeaderNames \X HeaderTargets, MaxHeaderCols) :
        \A i, j \in 1..Len(m) : i # j => m[i][1] # m[j][1]}

\* {target: original for original, target in mapping.items()}
ReverseMapping(m) == [i \in 1..Len(m) |-> <<m[i][2], m[i][1]>>]

InitHeader ==
    /\ pc = "ready"
    /\ src \in HeaderOnly
    /\ mapping = <<>> /\ schema = NoSchema
    /\ out = NoOutcome /\ report = NoOutcome /\ restored = <<>>
    /\ InitService

RenameAndReverse ==
    /\ pc = "ready"
    /\ \E m \in HeaderMappings :
        /\ mapping' = m
        /\ restored' = RewriteHeader(RewriteHeader(src.cols, m), ReverseMapping(m))
    /\ pc' = "round_trip"
    /\ UNCHANGED <<src, schema, out, report>>
    /\ UNCHANGED svcVars

NextHeader == RenameAndReverse

SpecHeader == InitHeader /\ [][NextHeader]_vars

-----------------------------------------------------------------------------
(* Paths.  A path below the data directory is a sequence of segments, a segment *)
(* a sequence of tokens: "f.csv" is <<"f", ".csv">>, "f-mod.csv" is             *)
(* <<"f", "-mod", ".csv">>.  A user is one segment (Flask's <user> holds no     *)
(* "/"); a filename, taken as it comes from the request, is split on "/".       *)

DotDot == <<"..">>

\* text.replace(".csv", toks) on one segment
RECURSIVE ReplaceCsv(_, _)
ReplaceCsv(seg, toks) ==
    IF seg = <<>> THEN <<>>
    ELSE (IF Head(seg) = ".csv" THEN toks ELSE <<Head(seg)>>) \o ReplaceCsv(Tail(seg), toks)

\* path.replace(".csv", "-mod.csv"): on the whole path string
ModPath(path) == [i \in 1..Len(path) |-> ReplaceCsv(path[i], <<"-mod", ".csv">>)]

Parent(path) == SubSeq(path, 1, Len(path) - 1)
IsPrefix(p, q) == Len(p) <= Len(q) /\ SubSeq(q, 1, Len(p)) = p

\* the operating system's walk from the data directory along path: every
\* directory on the way must exist, ".." steps to the parent
RECURSIVE Walk(_, _, _, _)
Walk(path, i, cur, ds) ==
    IF i > Len(path) THEN [err |-> "", path |-> cur]
    ELSE IF path[i] = DotDot
         THEN IF cur = <<>> THEN [err |-> "OutsideDataDir"]
              ELSE Walk(path, i + 1, Parent(cur), ds)
    ELSE IF i < Len(path) /\ Append(cur, path[i]) \notin ds
         THEN [err |-> "FileNotFoundError"]
    ELSE Walk(path, i + 1, Append(cur, path[i]), ds)

Resolve(path, ds) == Walk(path, 1, <<>>, ds)

-----------------------------------------------------------------------------
(* The file system under the data directory: fs = [dirs, files, access] *)

\* os.makedirs(path, exist_ok=True) for a path without ".."
MakeDirs(fs, path) ==
    [fs EXCEPT !.dirs = @ \cup {SubSeq(path, 1, k) : k \in 1..Len(path)}]

\* util.del_exists(path): remove the tree at path when there is one
del_exists(fs, path) ==
    [fs EXCEPT !.dirs = {d \in @ : ~IsPrefix(path, d)},
               !.files = [q \in {f \in DOMAIN @ : ~IsPrefix(path, f)} |-> @[q]]]

Touch(fs, user, op, mode, path) ==
    [fs EXCEPT !.access = @ \cup {[user |-> user, op |-> op, mode |-> mode, path |-> path]}]

\* open(path): [err, path, content, fs]
OpenRead(fs, user, op, path) ==
    LET r == Resolve(path, fs.dirs)
    IN IF r.err # "" THEN [err |-> "FileNotFoundError", fs |-> fs]
       ELSE IF r.path \notin DOMAIN fs.files THEN [err |-> "FileNotFoundError", fs |-> fs]
       ELSE [err |-> "", path |-> r.path, content |-> fs.files[r.path],
             fs |-> Touch(fs, user, op, "r", r.path)]

\* open(path, 'w') and write content: [err, fs]
WriteFile(fs, user, op, path, content) ==
    LET r == Resolve(path, fs.dirs)
    IN IF r.err # "" THEN [err |-> "FileNotFoundError", fs |-> fs]
       ELSE IF r.path \in fs.dirs \/ r.path = <<>> THEN [err |-> "IsADirectoryError", fs |-> fs]
       ELSE [err |-> "",
             fs |-> Touch([fs EXCEPT !.files =
                              [q \in DOMAIN @ \cup {r.path} |->
                                  IF q = r.path THEN content ELSE @[q]]],
                          user, op, "w", r.path)]

IsTable(content) == "cols" \in DOMAIN content

\* what readline() and the rest give once the file was truncated by open(.., 'w')
TruncatedFile == [cols |-> <<"">>, rows |-> <<>>]

-----------------------------------------------------------------------------
(* manager: the operations on the files of a user *)

\* save_data, then parse_data: [err, fs]
save_data(fs, user, filename, content) ==
    WriteFile(MakeDirs(fs, <<user>>), user, "upload", <<user>> \o filename, content)

parse_data(fs, user, filename) ==
    LET f == OpenRead(fs, user, "upload", <<user>> \o filename)
    IN IF f.err # "" THEN [err |-> f.err, fs |-> fs]
       ELSE IF ~IsTable(f.content) THEN [err |-> "ParserError", fs |-> f.fs]
       ELSE [err |-> ReadCsv(f.content, PreviewRows).err, fs |-> f.fs]

\* do_mapping with its paths: [err, fs]
do_mapping_files(fs, user, filename, m, sch) ==
    LET from_path == <<user>> \o filename
        to_path == ModPath(from_path)
        f == OpenRead(fs, user, "map", from_path)
    IN IF f.err # "" THEN [err |-> f.err, fs |-> fs]
       ELSE LET t == Resolve(to_path, fs.dirs)
            IN IF t.err # "" THEN [err |-> "FileNotFoundError", fs |-> f.fs]
               ELSE IF ~IsTable(f.content) THEN [err |-> "ParserError", fs |-> f.fs]
               ELSE LET res == do_mapping(IF t.path = f.path THEN TruncatedFile
                                          ELSE f.content, m, sch)
                        w == WriteFile(f.fs, user, "map", to_path, res.file)
                    IN [err |-> IF w.err # "" THEN w.err ELSE res.err, fs |-> w.fs]

\* validate_mapping with its path: [err, fs]
validate_mapping_files(fs, user, filename, m, sch) ==
    LET f == OpenRead(fs, user, "validate", <<user>> \o filename)
    IN IF f.err # "" THEN [err |-> f.err, fs |-> fs]
       ELSE IF ~IsTable(f.content) THEN [err |-> "ParserError", fs |-> f.fs]
       ELSE [err |-> validate_mapping(f.content, m, sch).err, fs |-> f.fs]

\* df.to_dict('records')
ToRecords(df) == [format |-> "json", columns |-> df.columns, records |-> df.data]

\* os.environ[key].format(user=user) for a value given as tokens
FormatUser(value, user) ==
    [i \in 1..Len(value) |-> IF value[i] = "{user}" THEN user ELSE <<value[i]>>]

\* the config built from the GLUESTICK_TARGET_* keys
TargetConfig(e, user, output_dir) ==
    [input_path |-> output_dir,
     format |-> e.format,
     bucket |-> FormatUser(e.bucket, user)]

\* the staging part of do_import, up to the write of config.json: [err, fs]
Stage(fs, e, user, filename) ==
    LET user_dir == <<user>>
        file_path == ModPath(user_dir \o filename)
        output_dir == <<user, <<"output">>>>
        fresh == MakeDirs(del_exists(fs, output_dir), output_dir)
        output_format == IF e.format = NoValue THEN "csv" ELSE e.format
        copied ==
            IF output_format = "csv"
            THEN LET f == OpenRead(fresh, user, "import", file_path)
                 IN IF f.err # "" THEN [err |-> f.err, fs |-> fresh]
                    ELSE WriteFile(f.fs, user, "import", output_dir \o filename, f.content)
            ELSE IF output_format = "json"
            THEN LET f == OpenRead(fresh, user, "import", file_path)
                 IN IF f.err # "" THEN [err |-> f.err, fs |-> fresh]
                    ELSE IF ~IsTable(f.content) THEN [err |-> "ParserError", fs |-> f.fs]
                    ELSE LET r == ReadAll(f.content)
                         IN IF r.err # "" THEN [err |-> r.err, fs |-> f.fs]
                            ELSE WriteFile(f.fs, user, "import",
                                    output_dir \o
                                      [i \in 1..Len(filename) |->
                                          ReplaceCsv(filename[i], <<".json">>)],
                                    ToRecords(r.df))
            ELSE [err |-> "", fs |-> fresh]
    IN IF copied.err # "" THEN copied
       ELSE WriteFile(copied.fs, user, "import", user_dir \o <<<<"config", ".json">>>>,
                      [config |-> TargetConfig(e, user, output_dir)])

\* what the exporter finds when it is launched in user_dir
Launch(fs, e, user) ==
    [user |-> user,
     format |-> IF e.format = NoValue THEN "csv" ELSE e.format,
     config |-> <<user, <<"config", ".json">>>> \in DOMAIN fs.files,
     staged |-> {IF IsTable(fs.files[f]) THEN "csv" ELSE "json" :
                    f \in {g \in DOMAIN fs.files : IsPrefix(<<user, <<"output">>>>, g)}}]

\* do_import: [err, fs, procs]; exit is the way the exporter ends
do_import(fs, e, ps, user, filename, exit) ==
    IF e.target = NoValue THEN [err |-> "", fs |-> fs, procs |-> ps]
    ELSE LET st == Stage(fs, e, user, filename)
         IN IF st.err # "" THEN [err |-> st.err, fs |-> st.fs, procs |-> ps]
            ELSE [err |-> IF exit = 0 THEN "" ELSE "SubprocessError",
                  fs |-> st.fs,
                  procs |-> ps \cup {Launch(st.fs, e, user)}]

-----------------------------------------------------------------------------
(* app: the HTTP handlers *)

MaxRequests == 3    \* requests handled in a run

Ann == <<"ann">>
Bob == <<"bob">>
Users == {Ann, Bob}
Filenames == {<<<<"f", ".csv">>>>, <<<<"notes">>>>}
             \cup {<<DotDot, u, <<"f", ".csv">>>> : u \in Users}
Uploads == {[cols |-> <<"a", "b">>, rows |-> <<<<"abc", "30">>, <<"30", "30">>>>],
            [cols |-> <<"a">>, rows |-> <<<<"30">>>>]}
\* a request body: filename, mapping (hasMapping is FALSE for a body without one), schema
Bodies ==
    [filename : Filenames,
     hasMapping : BOOLEAN,
     mapping : {<<<<"a", "x">>, <<"b", "b">>>>},
     schema : {[given |-> TRUE, fields |-> <<[col |-> "x", validator |-> RegexDigits]>>]}]
Environments ==
    {[target |-> NoValue, format |-> NoValue, bucket |-> <<>>]} \cup
    [target : {"s3"}, format : {NoValue, "json", "xml"}, bucket : {<<"b-", "{user}">>}]

FS == [dirs |-> dirs, files |-> files, access |-> access]

SetFS(fs) == dirs' = fs.dirs /\ files' = fs.files /\ access' = fs.access

Respond(route, user, hasMapping, status, code, message) ==
    /\ resp' = [route |-> route, user |-> user, hasMapping |-> hasMapping,
                status |-> status, code |-> code, message |-> message]
    /\ nreq' = nreq + 1

\* util.trigger_hook(user, lifecycle)
trigger_hook(user, lifecycle) == hooks' = Append(hooks, [user |-> user, lifecycle |-> lifecycle])

MappingMissingNever(body) == FALSE

\* mapping = body.get("mapping"); if mapping is None
MappingMissing(body) == ~body.hasMapping

InitApp ==
    /\ pc = "serving" /\ src = [cols |-> <<>>, rows |-> <<>>]
    /\ mapping = <<>> /\ schema = NoSchema
    /\ out = NoOutcome /\ report = NoOutcome /\ restored = <<>>
    /\ dirs = {} /\ files = <<>> /\ access = {}
    /\ env \in Environments
    /\ resp = NoResponse /\ hooks = <<>> /\ calls = <<>> /\ procs = {} /\ nreq = 0

\* POST /file/<user>/upload; parts is the number of parts of the multipart body
upload_file ==
    /\ nreq < MaxRequests
    /\ \E user \in Users, filename \in Filenames, content \in Uploads, parts \in {0, 1} :
        IF parts = 0
        THEN /\ Respond("upload", user, FALSE, 400, "error", "No Schema Provided")
             /\ UNCHANGED <<dirs, files, access, hooks, calls>>
        ELSE LET saved == save_data(FS, user, filename, content)
                 parsed == parse_data(saved.fs, user, filename)
             IN IF saved.err # ""
                THEN /\ SetFS(saved.fs) /\ calls' = Append(calls, "save_data")
                     /\ Respond("upload", user, FALSE, 500, "error", saved.err)
                     /\ UNCHANGED hooks
                ELSE IF parsed.err # ""
                THEN /\ SetFS(parsed.fs) /\ calls' = calls \o <<"save_data", "parse_data">>
                     /\ Respond("upload", user, FALSE, 500, "error", parsed.err)
                     /\ UNCHANGED hooks
                ELSE /\ SetFS(parsed.fs) /\ calls' = calls \o <<"save_data", "parse_data">>
                     /\ trigger_hook(user, "file.uploaded")
                     /\ Respond("upload", user, FALSE, 200, "success", "")
    /\ UNCHANGED <<env, procs>>
    /\ UNCHANGED coreVars

\* POST /file/<user>/map
app_do_mapping ==
    /\ nreq < MaxRequests
    /\ \E user \in Users, body \in Bodies :
        IF MappingMissing(body)
        THEN /\ Respond("map", user, body.hasMapping, 400, "error", "No mapping Provided")
             /\ UNCHANGED <<dirs, files, access, hooks, calls>>
        ELSE LET r == do_mapping_files(FS, user, body.filename, body.mapping, body.schema)
             IN /\ SetFS(r.fs) /\ calls' = Append(calls, "do_mapping")
                /\ IF r.err # ""
                   THEN /\ Respond("map", user, body.hasMapping, 500, "error", r.err)
                        /\ UNCHANGED hooks
                   ELSE /\ trigger_hook(user, "mapping.completed")
                        /\ Respond("map", user, body.hasMapping, 200, "success", "")
    /\ UNCHANGED <<env, procs>>
    /\ UNCHANGED coreVars

\* POST /file/<user>/validate
app_validate_mapping ==
    /\ nreq < MaxRequests
    /\ \E user \in Users, body \in Bodies :
        IF MappingMissing(body)
        THEN /\ Respond("validate", user, body.hasMapping, 400, "error", "No mapping Provided")
             /\ UNCHANGED <<dirs, files, access, hooks, calls>>
        ELSE LET r == validate_mapping_files(FS, user, body.filename, body.mapping,
                                             body.schema)
             IN /\ SetFS(r.fs) /\ calls' = Append(calls, "validate_mapping")
                /\ IF r.err # ""
                   THEN /\ Respond("validate", user, body.hasMapping, 500, "error", r.err)
                        /\ UNCHANGED hooks
                   ELSE /\ trigger_hook(user, "mapping.validation")
                        /\ Respond("validate", user, body.hasMapping, 200, "success", "")
    /\ UNCHANGED <<env, procs>>
    /\ UNCHANGED coreVars

\* POST /file/<user>/import; exit is the exporter's exit status
app_do_import ==
    /\ nreq < MaxRequests
    /\ \E user \in Users, filename \in Filenames, exit \in {0, 1} :
        LET r == do_import(FS, env, procs, user, filename, exit)
        IN /\ SetFS(r.fs) /\ procs' = r.procs /\ calls' = Append(calls, "do_import")
           /\ IF r.err # ""
              THEN /\ Respond("import", user, FALSE, 500, "error", r.err)
                   /\ UNCHANGED hooks
              ELSE /\ trigger_hook(user, "data.exported")
                   /\ Respond("import", user, FALSE, 200, "sucess", "")
    /\ UNCHANGED env
    /\ UNCHANGED coreVars

NextApp == upload_file \/ app_do_mapping \/ app_validate_mapping \/ app_do_import

SpecApp == InitApp /\ [][NextApp]_vars

-----------------------------------------------------------------------------
(* Properties of the mapping/validation core *)

\* the data rows of the source file, as read_csv counts them
SrcRows == SelectSeq(src.rows, LAMBDA r : ~IsBlankLine(r))

\* the column names of the source table once renamed
RenamedCols == Mangle(RewriteHeader(src.cols, mapping))

\* a cell text up to the way a number or a null is written
CanonCell(v) ==
    IF IsNullText(v) \/ v = NaN THEN NaN
    ELSE IF IsFloatLit(v) THEN CHOOSE d \in Digits : v = d \o ".0"
    ELSE v

ValidatedFields ==
    {schema.fields[i] : i \in {k \in 1..Len(schema.fields) :
                                  schema.fields[k].validator # NoValue}}

\* source row i holds a non-null, matching value in every validated field
RowPasses(i) ==
    \A f \in ValidatedFields :
        \E p \in Positions(RenamedCols, f.col) :
            /\ ~IsNullText(SrcRows[i][p])
            /\ Match(f.validator, SrcRows[i][p])

PassingRows == SelectSeq([i \in 1..Len(SrcRows) |-> i], RowPasses)

Returned == pc = "do_mapping" /\ out.err = ""

\* C1: when do_mapping returns, the data rows of the derived file are exactly the
\* source data rows, in their original order, whose value in every schema field
\* with a validator is non-null and matches the regex; every other row is dropped
\* and the derived row count is at most the source row count.
C1_ValidRowsKept ==
    Returned =>
        /\ out.kept = PassingRows
        /\ Len(out.file.rows) = Len(PassingRows)
        /\ Len(out.file.rows) <= Len(SrcRows)
        /\ \A k \in 1..Len(out.file.rows) : \A j \in 1..Len(out.file.cols) :
              \E p \in Positions(RenamedCols, out.file.cols[j]) :
                  CanonCell(out.file.rows[k][j]) = CanonCell(SrcRows[out.kept[k]][p])

\* C1 witness: a call that returned having kept a row, dropped a row for a null
\* and dropped a row for a value that does not match.
C1_Witness ==
    /\ Returned
    /\ Len(out.kept) >= 1
    /\ \E f \in ValidatedFields : \E p \in Positions(RenamedCols, f.col) :
          /\ \E i \in 1..Len(SrcRows) : IsNullText(SrcRows[i][p])
          /\ \E i \in 1..Len(SrcRows) :
                ~IsNullText(SrcRows[i][p]) /\ ~Match(f.validator, SrcRows[i][p])

\* C2 (as claimed): whenever do_mapping returns, the column set of the derived file
\* equals the set of the mapping's target names, for every mapping and header.
C2_ColumnsAreTargets ==
    Returned =>
        {out.file.cols[j] : j \in 1..Len(out.file.cols)}
            = {mapping[i][2] : i \in 1..Len(mapping)}

\* C3 (as claimed): an empty mapping on a source file with at least one column
\* leaves the derived file with all the source columns, names and order unchanged.
C3_EmptyMappingKeepsColumns ==
    (pc = "do_mapping" /\ mapping = <<>> /\ Len(src.cols) >= 1)
        => out.file.cols = src.cols

\* C10 (as claimed): a schema field with a validator whose col is no target name of
\* the mapping makes do_mapping end in an error, never return.
C10_UnmappedFieldFails ==
    (pc = "do_mapping" /\ schema.given
        /\ \E f \in ValidatedFields : \A i \in 1..Len(mapping) : mapping[i][2] # f.col)
        => out.err # ""

\* the data rows of the derived file
DerivedRows == SelectSeq(out.file.rows, LAMBDA r : ~IsBlankLine(r))

PreviewShowsRows ==
    /\ Len(out.preview) = 1 + Min(5, Len(DerivedRows))
    /\ Len(out.preview) - 1 <= 5
    /\ \A k \in 1..(Len(out.preview) - 1) :
          /\ Len(out.preview[k + 1]) = Len(out.file.cols)
          /\ \A j \in 1..Len(out.file.cols) :
                CanonCell(out.preview[k + 1][j]) = CanonCell(DerivedRows[k][j])

\* C7 (as claimed): the preview is the header row of the derived file followed by
\* its first min(5, n) data rows in file order, never more than 5 data rows.
C7_PreviewIsFileHead ==
    Returned => (out.preview[1] = out.file.cols /\ PreviewShowsRows)

\* C7 (amended): the preview is the header of the derived file as read_csv reads it
\* back (a repeated column name x comes back as x, x.1, ...) followed by the first
\* min(5, n) data rows of the file in file order, never more than 5 data rows.
C7_PreviewIsParsedHead ==
    Returned => (out.preview[1] = Mangle(out.file.cols) /\ PreviewShowsRows)

\* C7 witness: a derived file of more than 5 rows, previewed by its first 5.
C7_Witness ==
    Returned /\ Len(DerivedRows) > 5 /\ Len(out.preview) = 6

-----------------------------------------------------------------------------
(* Properties of the validation reporter *)

\* C5 (as claimed): every entry of the report of validate_mapping has a percent valid
\* between 0% and 100%, defined for every row count including zero rows, and a
\* sample of at most 5 invalid raw values.
C5_ReportWithinBounds ==
    pc = "validate_mapping" =>
        /\ report.err # "ZeroDivisionError"
        /\ report.err = "" =>
              \A i \in 1..Len(report.entries) :
                  /\ report.entries[i][2].percent >= 0
                  /\ report.entries[i][2].percent <= 10000
                  /\ Len(report.entries[i][2].rows) <= 5

-----------------------------------------------------------------------------
(* Properties of the header step *)

Injective(m) == \A i, j \in 1..Len(m) : m[i][2] = m[j][2] => i = j

\* C6 (as claimed): for every mapping with |mapping| = |original columns|, renaming
\* the header and then renaming with the reversed mapping restores the header.
C6_RoundTripSameSize ==
    (pc = "round_trip" /\ DictLen(mapping) = Len(src.cols)) => restored = src.cols

\* C6 (amended): for every mapping that gives distinct target names to exactly the
\* columns of the header (its keys are the header's columns, one entry per column),
\* renaming and then renaming with the reversed mapping restores the header,
\* column for column and in the same order.
C6_RoundTripOfRenaming ==
    (pc = "round_trip" /\ DictLen(mapping) = Len(src.cols) /\ Injective(mapping)
        /\ Keys(mapping) = {src.cols[i] : i \in 1..Len(src.cols)})
        => restored = src.cols

\* C6 witness: a two-column header whose columns were both renamed, one of them to
\* the other's old name, and restored.
C6_Witness ==
    /\ pc = "round_trip" /\ Len(src.cols) = 2 /\ DictLen(mapping) = 2
    /\ Injective(mapping)
    /\ Keys(mapping) = {src.cols[1], src.cols[2]}
    /\ RewriteHeader(src.cols, mapping)[1] = src.cols[2]
    /\ RewriteHeader(src.cols, mapping)[2] \notin {src.cols[1], src.cols[2]}
    /\ restored = src.cols

-----------------------------------------------------------------------------
(* Properties of the service *)

\* C4: for POST /file/{user}/map and /validate, a request body without a mapping is
\* answered HTTP 400 {code: error, message: "No mapping Provided"}; the manager is
\* not called, no file or directory is created or changed, no webhook is triggered.
C4_NoMappingRejected ==
    [][(nreq' = nreq + 1 /\ resp'.route \in {"map", "validate"} /\ ~resp'.hasMapping)
        => /\ resp'.status = 400
           /\ resp'.code = "error"
           /\ resp'.message = "No mapping Provided"
           /\ calls' = calls
           /\ hooks' = hooks
           /\ files' = files /\ dirs' = dirs /\ access' = access]_vars

\* C4 witness: a map or validate request without a mapping was answered 400 while
\* the user already had an uploaded file and a webhook had been triggered.
C4_Witness ==
    /\ resp.route \in {"map", "validate"}
    /\ ~resp.hasMapping
    /\ resp.status = 400
    /\ <<resp.user, <<"f", ".csv">>>> \in DOMAIN files
    /\ hooks # <<>>

\* C8 (as claimed): with no target configured do_import writes nothing and launches
\* no subprocess; with a target, the exporter is launched only after the mod file
\* was copied or converted into the fresh output directory in the configured
\* format and config.json was persisted.
C8_StagedBeforeInvoked ==
    /\ env.target = NoValue =>
          (procs = {} /\ \A a \in access : ~(a.op = "import" /\ a.mode = "w"))
    /\ \A p \in procs : p.config /\ p.format \in p.staged

\* C9 (as claimed): for any interleaving of upload, map, validate and import requests
\* of two different users, no path read or written for one user is a path written
\* for the other.
C9_UsersDisjoint ==
    \A a \in access : \A b \in access :
        (a.user # b.user /\ b.mode = "w") => a.path # b.path

====
